---- MODULE Spec2Model ----
(***************************************************************************)
(* A model of src/barrier.c (pthreads-win32 barriers): pthread_barrier_init*)
(* pthread_barrier_destroy, pthread_barrier_wait, the lazy initialisation  *)
(* helper ptw32_barrier_check_need_init and the barrier attribute calls.   *)
(*                                                                         *)
(* One barrier handle slot (a pthread_barrier_t in the caller's memory) is *)
(* shared by NumThreads threads, which make up to MaxCalls calls in all;   *)
(* a call advances one source statement at a time wherever another thread  *)
(* can observe the difference.  The mutex, the semaphore, the critical     *)
(* section, calloc/free and thread cancellation live outside barrier.c and *)
(* are modelled by their documented behaviour.                             *)
(***************************************************************************)
EXTENDS Integers, FiniteSets, Sequences, TLC

(* ----------------------------- bounds ---------------------------------- *)
NumThreads == 2
MaxCalls == 3
MaxCount == 2
MaxObjs == 2

Threads == 1..NumThreads
Objs == 1..MaxObjs
Gens == 0..MaxCalls

(* ------------------------ values of the source ------------------------- *)
(* A pthread_barrier_t is a pointer: NULL, the auto-init sentinel, or the  *)
(* address of a barrier object (an index into heap).                       *)
PTW32_OBJECT_INVALID == 0
PTW32_OBJECT_AUTO_INIT == -1
PTHREAD_PROCESS_PRIVATE == 0
PTHREAD_PROCESS_SHARED == 1
NoAttr == -1
CountInputs == 0..MaxCount
PsharedInputs == {PTHREAD_PROCESS_PRIVATE, PTHREAD_PROCESS_SHARED, 2}
InitFailures == {"none", "calloc", "mutex", "sem"}
CancelTypes == {"DEFERRED", "ASYNCHRONOUS"}

VARIABLES
    handle,      \* *barrier: the contents of the caller's handle slot
    heap,        \* the barrier objects, by address
    guard,       \* ptw32_barrier_test_init_lock: 0 free, else the holder
    attrObj,     \* *attr: NoAttr, or the pshared flag of the attributes object
    pc,          \* each thread's position
    op,          \* the call a thread is in ("none" between calls)
    result,      \* the local `result` of the call
    b,           \* the local `b` of wait and destroy
    seen,        \* the value of *barrier the thread read last
    ct,          \* the cancel type read at line 252
    arrival,     \* history: how many decrements came before the call's own
    last,        \* history: the call that returned last, and what it returned
    calls,       \* history: calls made so far
    waited,      \* history: the threads whose wait passed line 213
    decs,        \* history: decrements of nCurrentBarrierHeight, per object
    serials,     \* history: SERIAL_THREAD returns, per object and generation
    releases,    \* history: ordinary returns of non-last arrivals, ditto
    lazyBuilt,   \* history: objects constructed by lazy initialisation
    disturbed,   \* history: a cancellation, a destroy call or a second
                 \* wait by one thread has happened
    touched      \* history: invalid dereferences, as <<call, kind>>

vars ==
    <<handle, heap, guard, attrObj, pc, op, result, b, seen, ct, arrival, last,
      calls, waited, decs, serials, releases, lazyBuilt, disturbed, touched>>

shared == <<handle, heap, guard, attrObj>>
locals == <<pc, op, result, b, seen, ct, arrival>>
hist == <<decs, serials, releases, lazyBuilt, disturbed, touched>>

(* ------------------------------ objects -------------------------------- *)
Unallocated ==
    [st |-> "unalloc", nInitialBarrierHeight |-> 0, nCurrentBarrierHeight |-> 0,
     mtxOk |-> FALSE, owner |-> 0, semOk |-> FALSE, sem |-> 0,
     pshared |-> PTHREAD_PROCESS_PRIVATE]

(* The object lines 100-121 leave behind on success. *)
Constructed(count, pshared) ==
    [st |-> "live", nInitialBarrierHeight |-> count,
     nCurrentBarrierHeight |-> count,
     mtxOk |-> TRUE, owner |-> 0, semOk |-> TRUE, sem |-> 0,
     pshared |-> pshared]

IsRef(p) == p \in Objs
Live(p) == IsRef(p) /\ heap[p].st = "live"

(* calloc hands out the lowest address not used yet; none left is NULL. *)
FreeAddrs(h) == {o \in Objs : h[o].st = "unalloc"}
Calloc(h) ==
    IF FreeAddrs(h) = {} THEN 0
    ELSE CHOOSE o \in FreeAddrs(h) : \A p \in FreeAddrs(h) : o <= p


Kind(p) ==
    IF p = PTW32_OBJECT_INVALID THEN "null"
    ELSE IF p = PTW32_OBJECT_AUTO_INIT THEN "sentinel"
    ELSE IF heap[p].st = "live" THEN "destroyed"
    ELSE "freed"

(* Generation g of object o is its run of decrements number g*N ..        *)
(* g*N + N-1 (counting from 0), N the initial height: GenOf is the         *)
(* generation of decrement number k, IsNth whether k ends its generation.  *)
Height(o) == heap[o].nInitialBarrierHeight
GenOf(o, k) == IF Height(o) > 0 THEN k \div Height(o) ELSE 0
IsNth(o, k) == Height(o) > 0 /\ (k + 1) % Height(o) = 0

(* ------------------------ pthread_barrier_init ------------------------- *)
(* Lines 113-121: the object after the heights are set and the mutex and   *)
(* the semaphore are constructed; `fail` names the collaborator that       *)
(* fails, if any, and what fails is not constructed.                       *)
Built(count, pshared, fail) ==
    [Constructed(count, pshared) EXCEPT
       !.mtxOk = (fail # "mutex"),
       !.semOk = (fail \notin {"mutex", "sem"})]

(* A variant of FAIL1 that leaves the mutex constructed; C15 tells the two *)
(* apart.                                                                  *)
FAIL1Skipped(x) == x

(* Line 130, FAIL1: pthread_mutex_destroy. *)
FAIL1(x) == [x EXCEPT !.mtxOk = FALSE]

(* Line 133, FAIL0: free(b).  Nothing refers to the object, so what the    *)
(* freed memory holds is not kept.                                         *)
FAIL0(x) ==
    [x EXCEPT !.st = "freed", !.nInitialBarrierHeight = 0,
              !.nCurrentBarrierHeight = 0]

(* Lines 100-136.  The result is the heap afterwards, the value returned   *)
(* and the address of the object built (0 when none survives).             *)
BarrierInit(h, count, pshared, fail) ==
    LET a == IF fail = "calloc" THEN 0 ELSE Calloc(h)
        x == Built(count, pshared, fail)
    IN  IF a = 0
        THEN [heap |-> h, result |-> "ENOMEM", obj |-> 0]
        ELSE IF fail = "mutex"
        THEN [heap |-> [h EXCEPT ![a] = FAIL0(x)],
              result |-> "EAGAIN", obj |-> 0]
        ELSE IF fail = "sem"
        THEN [heap |-> [h EXCEPT ![a] = FAIL0(FAIL1(x))],
              result |-> "ENOSPC", obj |-> 0]
        ELSE [heap |-> [h EXCEPT ![a] = x], result |-> "OK", obj |-> a]

(* Line 108-111: the sharing mode init reads from its attr argument. *)
AttrPshared(attrNull) ==
    IF ~attrNull /\ attrObj # NoAttr THEN attrObj ELSE PTHREAD_PROCESS_PRIVATE

(* What a successful init stores through `barrier`: lines 127 and 135-136  *)
(* return without assigning *barrier, so the slot keeps its old contents.  *)
SlotAfterInit(old, obj) == old

(* --------------------------- call bookkeeping -------------------------- *)
CanCall(t) == pc[t] = "idle" /\ calls < MaxCalls

(* What `last` records in the state a return leads to: the call, the       *)
(* value returned, the object the call worked on or built (0 if none),     *)
(* the number of its decrement (-1 if it made none), the count or pshared  *)
(* argument (-1 if the call has none) and whether the pointer argument was *)
(* null.  Every other step sets `last` back to NoReturn.                   *)
Returned(name, r, o, k, count, null) ==
    [op |-> name, result |-> r, b |-> o, arrival |-> k, count |-> count,
     null |-> null]

NoReturn == Returned("none", "OK", 0, -1, -1, FALSE)

(* A call that completes in the step that makes it. *)
Atomic(t, name, r, o, count, null) ==
    /\ calls' = calls + 1
    /\ last' = Returned(name, r, o, -1, count, null)
    /\ UNCHANGED locals

(* A call that goes on from `at`. *)
Begin(t, name, at) ==
    /\ calls' = calls + 1
    /\ pc' = [pc EXCEPT ![t] = at]
    /\ op' = [op EXCEPT ![t] = name]
    /\ seen' = [seen EXCEPT ![t] = handle]
    /\ last' = NoReturn
    /\ UNCHANGED <<result, b, ct, arrival>>

(* The return of a call under way. *)
Return(t, r) ==
    /\ pc' = [pc EXCEPT ![t] = "idle"]
    /\ op' = [op EXCEPT ![t] = "none"]
    /\ result' = [result EXCEPT ![t] = "OK"]
    /\ b' = [b EXCEPT ![t] = 0]
    /\ seen' = [seen EXCEPT ![t] = 0]
    /\ ct' = [ct EXCEPT ![t] = "DEFERRED"]
    /\ arrival' = [arrival EXCEPT ![t] = -1]
    /\ last' = Returned(op[t], r, b[t], arrival[t], -1, FALSE)

(* A step inside a call that moves to `at`. *)
Goto(t, at) ==
    /\ pc' = [pc EXCEPT ![t] = at]
    /\ last' = NoReturn

(* The outcome of dereferencing an invalid pointer is undefined: the       *)
(* thread faults, or the collaborator reports an error and the call goes   *)
(* on with it.                                                             *)
Fault(t) ==
    /\ Goto(t, "fault")
    /\ UNCHANGED <<op, result, b, seen, ct, arrival>>

(* ------------------------------ the state ------------------------------ *)
(* The handle slot is the caller's memory: wait and destroy take whatever  *)
(* it holds.  It starts as the auto-init sentinel, or as a reference to a  *)
(* barrier in the state lines 113-121 construct, of count 1..MaxCount.     *)
Init ==
    /\ \E n \in 0..MaxCount :
         IF n = 0
         THEN /\ handle = PTW32_OBJECT_AUTO_INIT
              /\ heap = [o \in Objs |-> Unallocated]
         ELSE /\ handle = 1
              /\ heap = [o \in Objs |->
                           IF o = 1 THEN Constructed(n, PTHREAD_PROCESS_PRIVATE)
                           ELSE Unallocated]
    /\ guard = 0
    /\ attrObj = NoAttr
    /\ pc = [t \in Threads |-> "idle"]
    /\ op = [t \in Threads |-> "none"]
    /\ result = [t \in Threads |-> "OK"]
    /\ b = [t \in Threads |-> 0]
    /\ seen = [t \in Threads |-> 0]
    /\ ct = [t \in Threads |-> "DEFERRED"]
    /\ arrival = [t \in Threads |-> -1]
    /\ last = NoReturn
    /\ calls = 0
    /\ waited = {}
    /\ decs = [o \in Objs |-> 0]
    /\ serials = [o \in Objs |-> [g \in Gens |-> 0]]
    /\ releases = [o \in Objs |-> [g \in Gens |-> 0]]
    /\ lazyBuilt = 0
    /\ disturbed = FALSE
    /\ touched = {}

(* ------------------------- collaborators ------------------------------- *)
(* An invalid dereference by the call named `who` through pointer p. *)
Touch(who, p) == touched \cup {<<who, Kind(p)>>}
TouchIfDead(who, p) == IF Live(p) THEN touched ELSE Touch(who, p)

(* pthread_mutex_lock / trylock succeed on a constructed, unheld mutex of  *)
(* a live object; on a held one lock waits and trylock reports busy.       *)
MutexUsable(p) == Live(p) /\ heap[p].mtxOk
SemUsable(p) == Live(p) /\ heap[p].semOk

(* A value of *barrier that a later test may use: the one read before (the *)
(* slot is not volatile, so the read may be folded into the earlier one)   *)
(* or the slot's present contents.  Clobbered marks a call made in         *)
(* between, after which the slot is read again.                            *)
Clobbered == -2
Reads(t) == IF seen[t] = Clobbered THEN {handle} ELSE {seen[t], handle}

(* pthread_barrier_init(barrier, attr, count), lines 86-137. *)
pthread_barrier_init(t, barrierNull, attrNull, count, fail) ==
    /\ CanCall(t)
    /\ IF barrierNull
       THEN /\ Atomic(t, "init", "EINVAL", 0, count, TRUE)
            /\ UNCHANGED <<handle, heap>>
       ELSE LET r == BarrierInit(heap, count, AttrPshared(attrNull), fail)
            IN  /\ heap' = r.heap
                /\ handle' = IF r.result = "OK"
                             THEN SlotAfterInit(handle, r.obj) ELSE handle
                /\ Atomic(t, "init", r.result, r.obj, count, FALSE)
    /\ UNCHANGED <<guard, attrObj, waited, hist>>


(* --------------------------- pthread_barrier_wait ---------------------- *)
(* A variant of InvalidHandle that tests the pointer only; C8 tells the    *)
(* two apart.                                                              *)
InvalidHandleNullOnly(barrierNull, v) == barrierNull

(* Lines 145 and 213: the handle is no barrier. *)
InvalidHandle(barrierNull, v) == barrierNull \/ v = PTW32_OBJECT_INVALID

(* A variant of LastArrival that fires one arrival early; C3 tells the two *)
(* apart.                                                                  *)
LastArrivalOneEarly(height) == height <= 1

(* Line 231: the decrement left `height`; this arrival is the last one. *)
LastArrival(height) == height = 0

(* A variant of ResetHeight that resets one short; C4 tells the two apart. *)
ResetHeightOneShort(o) == heap[o].nInitialBarrierHeight - 1

(* Line 233: the height the last arrival leaves behind. *)
ResetHeight(o) == heap[o].nInitialBarrierHeight

(* Lines 235-236: the units the last arrival posts. *)
PostCount(o) == heap[o].nInitialBarrierHeight

(* Lines 207-216: the call and its first test. *)
wait_213(t, barrierNull) ==
    /\ CanCall(t)
    /\ IF InvalidHandle(barrierNull, handle)
       THEN /\ Atomic(t, "wait", "EINVAL", 0, -1, barrierNull)
            /\ UNCHANGED <<waited, disturbed>>
       ELSE /\ Begin(t, "wait", "w218")
            /\ waited' = waited \cup {t}
            /\ disturbed' = (disturbed \/ t \in waited)
    /\ UNCHANGED <<shared, decs, serials, releases, lazyBuilt, touched>>

(* Line 218: is the handle the auto-init sentinel? *)
wait_218(t) ==
    /\ pc[t] = "w218"
    /\ \E v \in Reads(t) :
         /\ seen' = [seen EXCEPT ![t] = v]
         /\ Goto(t, IF v = PTW32_OBJECT_AUTO_INIT THEN "cni56" ELSE "w226")
    /\ UNCHANGED <<shared, op, result, b, ct, arrival, calls, waited, hist>>

(* ptw32_barrier_check_need_init, line 56: EnterCriticalSection. *)
check_need_init_56(t) ==
    /\ pc[t] = "cni56"
    /\ guard = 0
    /\ guard' = t
    /\ Goto(t, "cni66")
    /\ UNCHANGED <<handle, heap, attrObj, op, result, b, seen, ct, arrival,
                   calls, waited, hist>>

(* A variant of NeedInit that also builds for a NULL handle; C14 tells the *)
(* two apart.                                                              *)
NeedInitUnlessBarrier(v) == v \notin Objs

(* Line 66: the handle still asks for initialisation. *)
NeedInit(v) == v = PTW32_OBJECT_AUTO_INIT

(* Lines 66-78, under the lock.  Line 68 calls pthread_barrier_init with   *)
(* two arguments: the count it receives is indeterminate.                  *)
check_need_init_66(t, count, fail) ==
    /\ pc[t] = "cni66"
    /\ IF NeedInit(handle)
       THEN LET r == BarrierInit(heap, count, PTHREAD_PROCESS_PRIVATE, fail)
            IN  /\ heap' = r.heap
                /\ result' = [result EXCEPT ![t] = r.result]
                /\ handle' = IF r.result = "OK"
                             THEN SlotAfterInit(handle, r.obj) ELSE handle
                /\ lazyBuilt' = IF r.result = "OK"
                                THEN lazyBuilt + 1 ELSE lazyBuilt
       ELSE /\ result' = [result EXCEPT ![t] =
                            IF handle = PTW32_OBJECT_INVALID
                            THEN "EINVAL" ELSE "OK"]
            /\ UNCHANGED <<handle, heap, lazyBuilt>>
    /\ Goto(t, "cni80")
    /\ UNCHANGED <<guard, attrObj, op, b, seen, ct, arrival, calls, waited,
                   decs, serials, releases, disturbed, touched>>

(* Lines 80-82 and 220-223: leave the critical section; wait returns a     *)
(* non-zero result at once.                                                *)
check_need_init_80(t) ==
    /\ pc[t] = "cni80"
    /\ guard' = 0
    /\ IF result[t] # "OK"
       THEN Return(t, result[t])
       ELSE /\ Goto(t, "w226")
            /\ seen' = [seen EXCEPT ![t] = Clobbered]
            /\ UNCHANGED <<op, result, b, ct, arrival>>
    /\ UNCHANGED <<handle, heap, attrObj, calls, waited, hist>>

(* Line 226: b = *barrier. *)
wait_226(t) ==
    /\ pc[t] = "w226"
    /\ \E v \in Reads(t) : b' = [b EXCEPT ![t] = v]
    /\ Goto(t, "w228")
    /\ seen' = [seen EXCEPT ![t] = 0]
    /\ UNCHANGED <<shared, op, result, ct, arrival, calls, waited, hist>>

(* A variant of Locked that goes on without the mutex; C18 tells the two   *)
(* apart.                                                                  *)
LockSkipped(h, o, t) == h

(* Line 228: the heap once pthread_mutex_lock has given thread t the mutex *)
(* of object o.                                                            *)
Locked(h, o, t) == [h EXCEPT ![o].owner = t]

(* Line 228: pthread_mutex_lock(b->mtxExclusiveAccess). *)
wait_228(t) ==
    /\ pc[t] = "w228"
    /\ IF MutexUsable(b[t])
       THEN /\ heap[b[t]].owner = 0
            /\ heap' = Locked(heap, b[t], t)
            /\ Goto(t, "w231")
            /\ UNCHANGED <<op, result, b, seen, ct, arrival, touched>>
       ELSE /\ touched' = Touch("wait", b[t])
            /\ UNCHANGED heap
            /\ Fault(t) \/ Return(t, "EINVAL")
    /\ UNCHANGED <<handle, guard, attrObj, calls, waited, decs, serials,
                   releases, lazyBuilt, disturbed>>

(* Lines 231 and 251-263: the decrement; a non-last arrival reads its      *)
(* cancel type, disables cancellation if it is deferred and pushes the     *)
(* unlock as a cleanup handler.                                            *)
wait_231(t, cancelType) ==
    /\ pc[t] = "w231"
    /\ LET o == b[t]
           height == heap[o].nCurrentBarrierHeight - 1
       IN  /\ heap' = [heap EXCEPT ![o].nCurrentBarrierHeight = height]
           /\ decs' = [decs EXCEPT ![o] = @ + 1]
           /\ arrival' = [arrival EXCEPT ![t] = decs[o]]
           /\ touched' = TouchIfDead("wait", o)
           /\ IF LastArrival(height)
              THEN /\ Goto(t, "w233")
                   /\ UNCHANGED ct
              ELSE /\ Goto(t, "w265")
                   /\ ct' = [ct EXCEPT ![t] = cancelType]
    /\ UNCHANGED <<handle, guard, attrObj, op, result, b, seen, calls, waited,
                   serials, releases, lazyBuilt, disturbed>>

(* Line 233: the last arrival resets the height. *)
wait_233(t) ==
    /\ pc[t] = "w233"
    /\ heap' = [heap EXCEPT ![b[t]].nCurrentBarrierHeight = ResetHeight(b[t])]
    /\ touched' = TouchIfDead("wait", b[t])
    /\ Goto(t, "w234")
    /\ UNCHANGED <<handle, guard, attrObj, op, result, b, seen, ct, arrival,
                   calls, waited, decs, serials, releases, lazyBuilt,
                   disturbed>>

(* Line 234: pthread_mutex_unlock. *)
wait_234(t) ==
    /\ pc[t] = "w234"
    /\ heap' = [heap EXCEPT ![b[t]].owner = 0]
    /\ touched' = TouchIfDead("wait", b[t])
    /\ Goto(t, "w235")
    /\ UNCHANGED <<handle, guard, attrObj, op, result, b, seen, ct, arrival,
                   calls, waited, decs, serials, releases, lazyBuilt,
                   disturbed>>

(* Lines 235-243: sem_post_multiple, then return SERIAL_THREAD.  The       *)
(* result of the post is discarded.                                        *)
wait_235(t) ==
    /\ pc[t] = "w235"
    /\ LET o == b[t]
       IN  /\ IF SemUsable(o)
              THEN /\ heap' = [heap EXCEPT ![o].sem = @ + PostCount(o)]
                   /\ UNCHANGED touched
                   /\ Return(t, "SERIAL")
              ELSE /\ touched' = Touch("wait", o)
                   /\ UNCHANGED heap
                   /\ Fault(t) \/ Return(t, "SERIAL")
           /\ serials' = IF pc'[t] = "idle"
                         THEN [serials EXCEPT ![o][GenOf(o, arrival[t])] = @ + 1]
                         ELSE serials
    /\ UNCHANGED <<handle, guard, attrObj, calls, waited, decs, releases,
                   lazyBuilt, disturbed>>

(* Line 265: sem_wait, holding the mutex.  On a destroyed semaphore it     *)
(* fails and result becomes errno.                                         *)
wait_265(t) ==
    /\ pc[t] = "w265"
    /\ LET o == b[t]
       IN  IF SemUsable(o)
           THEN /\ heap[o].sem > 0
                /\ heap' = [heap EXCEPT ![o].sem = @ - 1]
                /\ UNCHANGED <<result, touched>>
           ELSE /\ touched' = Touch("wait", o)
                /\ result' = [result EXCEPT ![t] = "EINVAL"]
                /\ UNCHANGED heap
    /\ Goto(t, "w275")
    /\ UNCHANGED <<handle, guard, attrObj, op, b, seen, ct, arrival, calls,
                   waited, decs, serials, releases, lazyBuilt, disturbed>>

(* A variant of CleanupHandler that leaves the mutex alone; C11 tells the  *)
(* two apart.                                                              *)
CleanupHandlerNone(h, o) == h

(* Lines 262-263: the cleanup handler pushed is pthread_mutex_unlock on    *)
(* b->mtxExclusiveAccess; this is the heap after it has run.               *)
CleanupHandler(h, o) == [h EXCEPT ![o].owner = 0]

(* Lines 270-279: restore the cancel state, pop and run the cleanup        *)
(* handler (the unlock), return result.                                    *)
wait_275(t) ==
    /\ pc[t] = "w275"
    /\ LET o == b[t]
       IN  /\ heap' = CleanupHandler(heap, o)
           /\ touched' = TouchIfDead("wait", o)
           /\ releases' = IF result[t] = "OK"
                          THEN [releases EXCEPT
                                  ![o][GenOf(o, arrival[t])] = @ + 1]
                          ELSE releases
    /\ Return(t, result[t])
    /\ UNCHANGED <<handle, guard, attrObj, calls, waited, decs, serials,
                   lazyBuilt, disturbed>>

(* A cancellation request reaches a thread blocked in sem_wait whose       *)
(* cancel type is asynchronous (lines 255-263 leave it enabled): the       *)
(* cleanup handler unlocks the mutex and the thread ends.                  *)
Cancel(t) ==
    /\ pc[t] = "w265"
    /\ ct[t] = "ASYNCHRONOUS"
    /\ heap' = CleanupHandler(heap, b[t])
    /\ Goto(t, "cancelled")
    /\ disturbed' = TRUE
    /\ UNCHANGED <<handle, guard, attrObj, op, result, b, seen, ct, arrival,
                   calls, waited, decs, serials, releases, lazyBuilt, touched>>

(* ------------------------- pthread_barrier_destroy --------------------- *)
(* Lines 139-148: the call and its first test. *)
destroy_145(t, barrierNull) ==
    /\ CanCall(t)
    /\ disturbed' = TRUE
    /\ IF InvalidHandle(barrierNull, handle)
       THEN Atomic(t, "destroy", "EINVAL", 0, -1, barrierNull)
       ELSE Begin(t, "destroy", "d150")
    /\ UNCHANGED <<shared, waited, decs, serials, releases, lazyBuilt,
                   touched>>

(* Line 150: is the handle something other than the sentinel? *)
destroy_150(t) ==
    /\ pc[t] = "d150"
    /\ \E v \in Reads(t) :
         /\ seen' = [seen EXCEPT ![t] = v]
         /\ Goto(t, IF v # PTW32_OBJECT_AUTO_INIT THEN "d152" ELSE "d176")
    /\ UNCHANGED <<shared, op, result, b, ct, arrival, calls, waited, hist>>

(* Line 152: b = *barrier. *)
destroy_152(t) ==
    /\ pc[t] = "d152"
    /\ \E v \in Reads(t) : b' = [b EXCEPT ![t] = v]
    /\ Goto(t, "d154")
    /\ seen' = [seen EXCEPT ![t] = 0]
    /\ UNCHANGED <<shared, op, result, ct, arrival, calls, waited, hist>>

(* Line 154: pthread_mutex_trylock.  When it does not return 0 the if has  *)
(* no else: control falls to line 203 with result still 0.                 *)
destroy_154(t) ==
    /\ pc[t] = "d154"
    /\ IF MutexUsable(b[t])
       THEN /\ UNCHANGED touched
            /\ IF heap[b[t]].owner = 0
               THEN /\ heap' = [heap EXCEPT ![b[t]].owner = t]
                    /\ Goto(t, "d163")
                    /\ UNCHANGED <<op, result, b, seen, ct, arrival>>
               ELSE /\ UNCHANGED heap
                    /\ Return(t, result[t])
       ELSE /\ touched' = Touch("destroy", b[t])
            /\ UNCHANGED heap
            /\ Fault(t) \/ Return(t, result[t])
    /\ UNCHANGED <<handle, guard, attrObj, calls, waited, decs, serials,
                   releases, lazyBuilt, disturbed>>

(* Line 163: *barrier = NULL. *)
destroy_163(t) ==
    /\ pc[t] = "d163"
    /\ handle' = PTW32_OBJECT_INVALID
    /\ Goto(t, "d165")
    /\ UNCHANGED <<heap, guard, attrObj, op, result, b, seen, ct, arrival,
                   calls, waited, hist>>

(* Line 165: sem_destroy. *)
destroy_165(t) ==
    /\ pc[t] = "d165"
    /\ heap' = [heap EXCEPT ![b[t]].semOk = FALSE]
    /\ Goto(t, "d166")
    /\ UNCHANGED <<handle, guard, attrObj, op, result, b, seen, ct, arrival,
                   calls, waited, hist>>

(* Line 166: pthread_mutex_unlock. *)
destroy_166(t) ==
    /\ pc[t] = "d166"
    /\ heap' = [heap EXCEPT ![b[t]].owner = 0]
    /\ Goto(t, "d167")
    /\ UNCHANGED <<handle, guard, attrObj, op, result, b, seen, ct, arrival,
                   calls, waited, hist>>

(* Lines 167-168 and 203: pthread_mutex_destroy (which leaves a mutex that *)
(* a waiter has locked meanwhile), free(b), return.                        *)
destroy_167(t) ==
    /\ pc[t] = "d167"
    /\ heap' = [heap EXCEPT
                  ![b[t]].mtxOk = IF heap[b[t]].owner = 0 THEN FALSE ELSE @,
                  ![b[t]].st = "freed"]
    /\ Return(t, result[t])
    /\ UNCHANGED <<handle, guard, attrObj, calls, waited, hist>>

(* Line 176: EnterCriticalSection. *)
destroy_176(t) ==
    /\ pc[t] = "d176"
    /\ guard = 0
    /\ guard' = t
    /\ Goto(t, "d181")
    /\ UNCHANGED <<handle, heap, attrObj, op, result, b, seen, ct, arrival,
                   calls, waited, hist>>

(* Lines 181-198: check again under the lock. *)
destroy_181(t) ==
    /\ pc[t] = "d181"
    /\ IF handle = PTW32_OBJECT_AUTO_INIT
       THEN /\ handle' = PTW32_OBJECT_INVALID
            /\ UNCHANGED result
       ELSE /\ result' = [result EXCEPT ![t] = "EBUSY"]
            /\ UNCHANGED handle
    /\ Goto(t, "d200")
    /\ UNCHANGED <<heap, guard, attrObj, op, b, seen, ct, arrival, calls,
                   waited, hist>>

(* Lines 200-203: LeaveCriticalSection, return. *)
destroy_200(t) ==
    /\ pc[t] = "d200"
    /\ guard' = 0
    /\ Return(t, result[t])
    /\ UNCHANGED <<handle, heap, attrObj, calls, waited, hist>>

(* --------------------------- barrier attributes ------------------------ *)
(* pthread_barrierattr_init, lines 283-326.  Line 320 stores through ba    *)
(* even when calloc returned NULL.                                         *)
pthread_barrierattr_init(t, allocFails) ==
    /\ CanCall(t)
    /\ IF allocFails
       THEN /\ touched' = touched \cup {<<"attr_init", "null">>}
            /\ \/ /\ calls' = calls + 1
                  /\ Fault(t)
                  /\ UNCHANGED attrObj
               \/ /\ Atomic(t, "attr_init", "ENOMEM", 0, -1, FALSE)
                  /\ attrObj' = NoAttr
       ELSE /\ attrObj' = PTHREAD_PROCESS_PRIVATE
            /\ Atomic(t, "attr_init", "OK", 0, -1, FALSE)
            /\ UNCHANGED touched
    /\ UNCHANGED <<handle, heap, guard, waited, decs, serials, releases,
                   lazyBuilt, disturbed>>

(* pthread_barrierattr_destroy, lines 329-374. *)
pthread_barrierattr_destroy(t, attrNull) ==
    /\ CanCall(t)
    /\ IF attrNull \/ attrObj = NoAttr
       THEN /\ Atomic(t, "attr_destroy", "EINVAL", 0, -1, attrNull)
            /\ UNCHANGED attrObj
       ELSE /\ Atomic(t, "attr_destroy", "OK", 0, -1, attrNull)
            /\ attrObj' = NoAttr
    /\ UNCHANGED <<handle, heap, guard, waited, hist>>

(* pthread_barrierattr_getpshared, lines 377-434: the result only; no      *)
(* statement stores through pshared.                                       *)
pthread_barrierattr_getpshared(t, attrNull, psharedNull) ==
    /\ CanCall(t)
    /\ Atomic(t, "attr_getpshared",
              IF ~attrNull /\ attrObj # NoAttr /\ ~psharedNull
              THEN "OK" ELSE "EINVAL", 0, -1, attrNull)
    /\ UNCHANGED <<shared, waited, hist>>

(* A variant of SetPshared that stores the mode as given; C16 tells the    *)
(* two apart.                                                              *)
SetPsharedAsGiven(a, attrNull, pshared) ==
    IF ~attrNull /\ a # NoAttr
       /\ pshared \in {PTHREAD_PROCESS_SHARED, PTHREAD_PROCESS_PRIVATE}
    THEN [attr |-> pshared,
          result |-> IF pshared = PTHREAD_PROCESS_SHARED
                     THEN "ENOSYS" ELSE "OK"]
    ELSE [attr |-> a, result |-> "EINVAL"]

(* Lines 483-511, built without _POSIX_THREAD_PROCESS_SHARED: the flag     *)
(* stored and the value returned.                                          *)
SetPshared(a, attrNull, pshared) ==
    IF ~attrNull /\ a # NoAttr
       /\ pshared \in {PTHREAD_PROCESS_SHARED, PTHREAD_PROCESS_PRIVATE}
    THEN IF pshared = PTHREAD_PROCESS_SHARED
         THEN [attr |-> PTHREAD_PROCESS_PRIVATE, result |-> "ENOSYS"]
         ELSE [attr |-> pshared, result |-> "OK"]
    ELSE [attr |-> a, result |-> "EINVAL"]

(* pthread_barrierattr_setpshared, lines 437-516. *)
pthread_barrierattr_setpshared(t, attrNull, pshared) ==
    /\ CanCall(t)
    /\ LET r == SetPshared(attrObj, attrNull, pshared)
       IN  /\ attrObj' = r.attr
           /\ Atomic(t, "attr_setpshared", r.result, 0, pshared, attrNull)
    /\ UNCHANGED <<handle, heap, guard, waited, hist>>

(* ------------------------------ the system ----------------------------- *)
(* A step of a call under way. *)
Proceed(t) ==
    \/ wait_218(t)
    \/ check_need_init_56(t)
    \/ \E count \in CountInputs, fail \in InitFailures :
         check_need_init_66(t, count, fail)
    \/ check_need_init_80(t)
    \/ wait_226(t)
    \/ wait_228(t)
    \/ \E cancelType \in CancelTypes : wait_231(t, cancelType)
    \/ wait_233(t)
    \/ wait_234(t)
    \/ wait_235(t)
    \/ wait_265(t)
    \/ wait_275(t)
    \/ destroy_150(t)
    \/ destroy_152(t)
    \/ destroy_154(t)
    \/ destroy_163(t)
    \/ destroy_165(t)
    \/ destroy_166(t)
    \/ destroy_167(t)
    \/ destroy_176(t)
    \/ destroy_181(t)
    \/ destroy_200(t)

InitCall(t) ==
    \E barrierNull \in BOOLEAN, attrNull \in BOOLEAN, count \in CountInputs,
       fail \in InitFailures :
         pthread_barrier_init(t, barrierNull, attrNull, count, fail)

WaitCall(t) == \E barrierNull \in BOOLEAN : wait_213(t, barrierNull)

DestroyCall(t) == \E barrierNull \in BOOLEAN : destroy_145(t, barrierNull)

AttrCall(t) ==
    \/ \E allocFails \in BOOLEAN : pthread_barrierattr_init(t, allocFails)
    \/ \E attrNull \in BOOLEAN : pthread_barrierattr_destroy(t, attrNull)
    \/ \E attrNull \in BOOLEAN, psharedNull \in BOOLEAN :
         pthread_barrierattr_getpshared(t, attrNull, psharedNull)
    \/ \E attrNull \in BOOLEAN, pshared \in PsharedInputs :
         pthread_barrierattr_setpshared(t, attrNull, pshared)

(* Every call of barrier.c, by any thread, in any order. *)
Next ==
    \E t \in Threads :
      \/ InitCall(t)
      \/ WaitCall(t)
      \/ DestroyCall(t)
      \/ AttrCall(t)
      \/ Proceed(t)
      \/ Cancel(t)

Spec == Init /\ [][Next]_vars

(* Threads that only wait on and destroy the barrier. *)
BarrierNext ==
    \E t \in Threads :
      \/ WaitCall(t)
      \/ DestroyCall(t)
      \/ Proceed(t)
      \/ Cancel(t)

BarrierSpec == Init /\ [][BarrierNext]_vars

(* Threads that only construct barriers and handle attributes. *)
InitNext ==
    \E t \in Threads :
      \/ InitCall(t)
      \/ AttrCall(t)

InitSpec == Init /\ [][InitNext]_vars

(* A call under way takes its next step whenever it can: threads are       *)
(* scheduled fairly.  Nothing obliges a thread to make a call or a         *)
(* cancellation to arrive.                                                 *)
FairSpec == BarrierSpec /\ \A t \in Threads : WF_vars(Proceed(t))

(* ------------------------------- properties --------------------------- *)
(* The barrier the properties below follow from its construction on: the   *)
(* handle refers to object 1, built with a count of at least 1, and        *)
(* nothing but first waits has happened to it.                             *)
Scenario ==
    /\ handle = 1
    /\ Live(1)
    /\ ~disturbed
    /\ lazyBuilt = 0
    /\ Cardinality(waited) = Height(1)

AllReturned == \A t \in waited : pc[t] = "idle"

(* C1: when exactly N threads each call wait once on a freshly initialised *)
(* barrier of count N, with no cancellation, no destroy and fair           *)
(* scheduling, every one of the N calls eventually returns.                *)
C1_AllWaitsReturn == Scenario ~> (~Scenario \/ AllReturned)

(* C2: no wait call returns, as SERIAL_THREAD or as 0, before all N        *)
(* decrements of its own generation have been made: when the call whose    *)
(* decrement was number k (from 0) returns, at least (k div N + 1) * N     *)
(* decrements have happened.                                               *)
C2_NoEarlyReturn ==
    (last.op = "wait" /\ last.result \in {"OK", "SERIAL"} /\ last.arrival >= 0)
        => decs[last.b] >= (GenOf(last.b, last.arrival) + 1) * Height(last.b)

Resetting(o) == \E t \in Threads : pc[t] = "w233" /\ b[t] = o

C5_InitPublishes ==
    (last.op = "init" /\ last.result = "OK") =>
        /\ handle = last.b
        /\ IsRef(handle)
        /\ heap[handle] = Constructed(last.count, heap[handle].pshared)

(* C6: init called with count 0 or with a null handle slot returns EINVAL  *)
(* and constructs no object, and the step leaves the handle slot and the   *)
(* heap as they were.                                                      *)
C6_InitRejects ==
    [][(last'.op = "init" /\ (last'.count = 0 \/ last'.null)) =>
          /\ last'.result = "EINVAL"
          /\ last'.b = 0
          /\ UNCHANGED <<handle, heap>>]_vars

(* C7: for every live barrier object, 0 <= current height <= initial       *)
(* height; the current height is 0 only while the thread whose decrement   *)
(* made it 0 still holds the mutex; and whenever the mutex is free the     *)
(* current height is at least 1.                                           *)
C7_HeightInRange ==
    \A o \in Objs :
      Live(o) =>
         /\ 0 <= heap[o].nCurrentBarrierHeight
         /\ heap[o].nCurrentBarrierHeight <= heap[o].nInitialBarrierHeight
         /\ heap[o].nCurrentBarrierHeight = 0 =>
              \E t \in Threads :
                 heap[o].owner = t /\ pc[t] = "w233" /\ b[t] = o
         /\ heap[o].owner = 0 => heap[o].nCurrentBarrierHeight >= 1

(* A step in which some thread calls wait. *)
WaitCalled ==
    /\ calls' = calls + 1
    /\ \/ last'.op = "wait"
       \/ \E t \in Threads : op[t] = "none" /\ op'[t] = "wait"

(* C8: wait called with a null pointer or on a destroyed (NULL) handle     *)
(* returns EINVAL in that very step: it takes no lock, does not reach the  *)
(* semaphore and changes neither the handle, nor any barrier object, nor   *)
(* anything else but the count of calls.                                   *)
C8_WaitRejectsInvalid ==
    [][(WaitCalled /\ (handle = PTW32_OBJECT_INVALID \/ last'.null)) =>
          /\ last'.op = "wait"
          /\ last'.result = "EINVAL"
          /\ UNCHANGED <<shared, locals, waited, hist>>]_vars

(* wait has just returned EINVAL for a non-null pointer to a destroyed     *)
(* handle.                                                                 *)
C8_Witness ==
    /\ last.op = "wait"
    /\ last.result = "EINVAL"
    /\ ~last.null
    /\ handle = PTW32_OBJECT_INVALID

(* C9: however the wait calls on a handle in the auto-init state           *)
(* interleave, lazy initialisation constructs exactly one object for it: a *)
(* thread that enters the guarded section after the first finds the handle *)
(* resolved and builds nothing.                                            *)
C9_OneLazyObject == lazyBuilt <= 1

(* C10: when a destroy turns an auto-init handle into NULL while a wait on *)
(* it is under way, that wait returns EINVAL: with no barrier object ever  *)
(* constructed, no wait goes on to lock through the NULL handle.           *)
C10_WaitNeverUsesNull ==
    (\A o \in Objs : heap[o].st = "unalloc") => <<"wait", "null">> \notin touched

(* A step in which thread t is cancelled inside sem_wait. *)
CancelledNow(t) == pc[t] = "w265" /\ pc'[t] = "cancelled"

(* C11: a thread cancelled while blocked in wait as a non-last arrival     *)
(* holds the mutex when the cancellation arrives and its unwind releases   *)
(* it, once, leaving the current height as its own decrement left it;      *)
(* from then on the cancelled thread holds no mutex, so the mutex is free  *)
(* for the next wait or destroy.                                           *)
C11_CancelReleasesLock ==
    /\ [](\A t \in Threads :
            pc[t] = "cancelled" => \A o \in Objs : heap[o].owner # t)
    /\ [][\A t \in Threads :
            CancelledNow(t) =>
               /\ heap[b[t]].owner = t
               /\ heap'[b[t]].owner = 0
               /\ heap'[b[t]].nCurrentBarrierHeight =
                    heap[b[t]].nCurrentBarrierHeight
               /\ heap[b[t]].nCurrentBarrierHeight =
                    Height(b[t]) - ((arrival[t] % Height(b[t])) + 1)]_vars

(* After a cancellation another thread has taken the mutex of the same     *)
(* barrier.                                                                *)
C11_Witness ==
    \E t \in Threads, u \in Threads :
       /\ u # t
       /\ pc[t] = "cancelled"
       /\ IsRef(b[t])
       /\ heap[b[t]].owner = u

(* C12: destroy called on a valid handle whose mutex another thread holds  *)
(* destroys nothing and reports EBUSY, not 0: whenever a destroy returns 0 *)
(* the handle is NULL.                                                     *)
C12_DestroyReportsBusy ==
    (last.op = "destroy" /\ last.result = "OK") =>
        handle = PTW32_OBJECT_INVALID

(* C13: a destroy that first saw the auto-init sentinel decides under the  *)
(* guard: it returns EBUSY only when the handle has become a reference to  *)
(* a barrier object, and no thread returns holding the guard.              *)
C13_SentinelDestroy ==
    /\ (last.op = "destroy" /\ last.result = "EBUSY") => IsRef(handle)
    /\ guard # 0 => pc[guard] # "idle"

(* C14: once the handle is NULL no step of a wait or a destroy changes it, *)
(* and lazy initialisation constructs no object for it.                    *)
C14_DestroyedStays ==
    [][handle = PTW32_OBJECT_INVALID =>
          /\ handle' = PTW32_OBJECT_INVALID
          /\ lazyBuilt' = lazyBuilt
          /\ \A o \in Objs :
               heap[o].st = "unalloc" => heap'[o].st = "unalloc"]_vars

(* A wait that saw the sentinel has found the handle destroyed under the   *)
(* guard.                                                                  *)
C14_Witness ==
    /\ handle = PTW32_OBJECT_INVALID
    /\ \E t \in Threads :
          pc[t] = "cni80" /\ op[t] = "wait" /\ result[t] = "EINVAL"

(* A step in which init returns the error of the mutex or of the          *)
(* semaphore construction.                                                 *)
InitFailedLate == last'.op = "init" /\ last'.result \in {"EAGAIN", "ENOSPC"}

(* C15: when init fails after the allocation (the mutex cannot be          *)
(* constructed, or the semaphore cannot after the mutex was) it returns    *)
(* the collaborator's error, leaves the allocated object freed with        *)
(* neither a mutex nor a semaphore constructed in it, touches no other     *)
(* object and leaves the handle slot unchanged.                            *)
C15_InitCleansUp ==
    [][InitFailedLate =>
          LET a == Calloc(heap)
          IN  /\ a # 0
              /\ heap'[a].st = "freed"
              /\ ~heap'[a].mtxOk
              /\ ~heap'[a].semOk
              /\ \A o \in Objs \ {a} : heap'[o] = heap[o]
              /\ handle' = handle
              /\ last'.b = 0]_vars

(* init has just returned the semaphore's error, after the mutex had been  *)
(* constructed.                                                            *)
C15_Witness ==
    /\ last.op = "init"
    /\ last.result = "ENOSPC"
    /\ \E o \in Objs : heap[o].st = "freed"

(* C16: built without process-shared support, setpshared(attr, SHARED) on  *)
(* a valid attributes object returns ENOSYS and the flag stored afterwards *)
(* is PRIVATE; a call that returns EINVAL leaves the stored flag (and      *)
(* whether there is an attributes object) as it was.                       *)
C16_SetPsharedUnsupported ==
    [][last'.op = "attr_setpshared" =>
          /\ (last'.count = PTHREAD_PROCESS_SHARED /\ ~last'.null
                /\ attrObj # NoAttr) =>
                (last'.result = "ENOSYS"
                   /\ attrObj' = PTHREAD_PROCESS_PRIVATE)
          /\ last'.result = "EINVAL" => attrObj' = attrObj]_vars

(* setpshared has just refused SHARED on a valid attributes object. *)
C16_Witness ==
    /\ last.op = "attr_setpshared"
    /\ last.count = PTHREAD_PROCESS_SHARED
    /\ last.result = "ENOSYS"
    /\ attrObj = PTHREAD_PROCESS_PRIVATE

(* C17: non-last arrivals block on the semaphore outside the mutex: no     *)
(* thread is in sem_wait (line 265) while it holds the barrier's mutex.    *)
C17_SemWaitOutsideLock ==
    \A t \in Threads :
       (pc[t] = "w265" /\ IsRef(b[t])) => heap[b[t]].owner # t

(* C18: every change of the current height of an object after its         *)
(* construction, the decrement (line 231) and the reset (line 233), is     *)
(* made by a thread that holds the object's mutex at that step.            *)
C18_HeightChangesUnderLock ==
    [][\A o \in Objs :
          (heap[o].st # "unalloc"
             /\ heap'[o].nCurrentBarrierHeight # heap[o].nCurrentBarrierHeight)
          => \E t \in Threads :
                /\ heap[o].owner = t
                /\ b[t] = o
                /\ pc[t] \in {"w231", "w233"}
                /\ pc'[t] # pc[t]]_vars

(* A last arrival has reset the height and still holds the mutex. *)
C18_Witness ==
    \E t \in Threads :
       /\ pc[t] = "w234"
       /\ IsRef(b[t])
       /\ heap[b[t]].owner = t
       /\ decs[b[t]] >= 1
       /\ heap[b[t]].nCurrentBarrierHeight = Height(b[t])

(* C19: the semaphore carries no surplus between generations: whenever no  *)
(* wait call is under way, the semaphore of a live barrier counts 0.       *)
C19_NoSurplus ==
    (\A t \in Threads : op[t] # "wait") =>
        \A o \in Objs : (Live(o) /\ heap[o].semOk) => heap[o].sem = 0

(* C20: no wait call locks the mutex, changes the height, or waits on or   *)
(* posts the semaphore of a barrier object that a destroy has torn down    *)
(* or freed.                                                               *)
C20_NoUseAfterFree ==
    /\ <<"wait", "destroyed">> \notin touched
    /\ <<"wait", "freed">> \notin touched

====
